---- MODULE Spec2Model ----
(***************************************************************************)
(* Model of the PI E-753.1CD device adaptor (pi_E_753_1CD.py).             *)
(*                                                                         *)
(* The Controller is modelled as one sequential process (pc, stack) whose  *)
(* steps are the transport operations of the code (port.write,             *)
(* port.readline, port.read) together with the local statements that       *)
(* follow them.  The device is a second process that answers the requests  *)
(* it has received; a read that finds no complete reply may time out       *)
(* (serial.Serial(..., timeout=5)) and return what is in the input buffer. *)
(*                                                                         *)
(* Positions are integers in units of z_tol_um (0.25 um), for which the    *)
(* '%0.9f' formatting of the MOV argument is exact.  Bytes are integers.   *)
(***************************************************************************)
EXTENDS Integers, Sequences, FiniteSets, TLC

\* ------------------------------------------------------------------ bytes
LF == 10
SP == 32
CR == 13
EQ == 61
Zero == 48
Nine == 57
One == 49
ChrA == 97
ChrI == 73
ChrM == 77
Micro == 181
AsciiMax == 127

\* ----------------------------------------------------------------- bounds
\* number of requests the device may leave without a reply
MaxLost == 1
\* how far the cached position may be driven outside the position limits
ZOver == 1
\* number of lines in one reply to HLP?
MaxLines == 2
\* number of reads that may time out before a reply on its way arrives
MaxEarly == 1

\* ------------------------------------------------- device (environment)
DevZMin == 1
DevZMax == 5
z_tol_um == 1

ValueLine(v) == <<One, EQ, Zero + v, LF>>
DevPositions == (DevZMin - 1)..(DevZMax + 1)

OkLine == <<Zero, LF>>
BusyLine == <<One, LF>>
UnitLine == <<EQ, Micro, ChrM, LF>>
BadUnitLine == <<EQ, ChrM, LF>>
IdentityLine == <<ChrI, LF>>
\* lines of a reply to HLP?: all but the last end in a space
MoreLines == { <<ChrA, SP, LF>>, <<SP, LF>> }
EndLines == { <<LF>>, <<ChrA, LF>>, <<ChrA, CR, LF>> }

\* ------------------------------------------------------- byte strings
HasLF(s) == \E i \in 1..Len(s) : s[i] = LF

FirstLF(s) == CHOOSE i \in 1..Len(s) : s[i] = LF /\ \A j \in 1..(i - 1) : s[j] # LF

\* bytes.endswith(b'\n')
endswith_LF(s) == Len(s) > 0 /\ s[Len(s)] = LF

\* the characters bytes.rstrip() / float() treat as whitespace
IsSpace(b) == b \in {9, LF, 11, 12, CR, SP}

RECURSIVE rstrip(_)
rstrip(s) ==
    IF Len(s) > 0 /\ IsSpace(s[Len(s)]) THEN rstrip(SubSeq(s, 1, Len(s) - 1)) ELSE s

RECURSIVE lstrip(_)
lstrip(s) ==
    IF Len(s) > 0 /\ IsSpace(s[1]) THEN lstrip(Tail(s)) ELSE s

\* bytes.decode('ascii') succeeds
IsAscii(s) == \A i \in 1..Len(s) : s[i] <= AsciiMax

\* str.split('=') : the sequence of fields between the '=' characters
RECURSIVE split_eq(_)
split_eq(s) ==
    IF \E i \in 1..Len(s) : s[i] = EQ
    THEN LET i == CHOOSE k \in 1..Len(s) : s[k] = EQ /\ \A j \in 1..(k - 1) : s[j] # EQ
         IN  <<SubSeq(s, 1, i - 1)>> \o split_eq(SubSeq(s, i + 1, Len(s)))
    ELSE <<s>>

IsDigits(s) == Len(s) > 0 /\ \A i \in 1..Len(s) : s[i] \in Zero..Nine

RECURSIVE DecimalValue(_)
DecimalValue(s) ==
    IF Len(s) = 0 THEN 0
    ELSE 10 * DecimalValue(SubSeq(s, 1, Len(s) - 1)) + (s[Len(s)] - Zero)

\* float(text.split('=')[1]) : IndexError without '=', ValueError on a
\* non-number (the model's alphabet has digits only, no sign or point)
CanParse(text) ==
    /\ Len(split_eq(text)) >= 2
    /\ IsDigits(rstrip(lstrip(split_eq(text)[2])))

ParseValue(text) == DecimalValue(rstrip(lstrip(split_eq(text)[2])))

RECURSIVE Flatten(_)
Flatten(ls) == IF Len(ls) = 0 THEN <<>> ELSE Head(ls) \o Flatten(Tail(ls))

\* ------------------------------------------------------------ commands
Cmd(op, n) == [op |-> op, n |-> n, d |-> 1]
CmdFrac(op, n, d) == [op |-> op, n |-> n, d |-> d]
ERR == Cmd("ERR?", 0)
POLL == Cmd("#5", 0)

\* the commands the device answers with a reply
Queries == {"*IDN?", "SPA? 1 0x07000601", "POS?", "TMN?", "TMX?", "TSP? 2",
            "HLP?", "ERR?", "#5"}

HelpReplies ==
    { Flatten(ls) \o e : ls \in UNION { [1..k -> MoreLines] : k \in 0..(MaxLines - 1) },
                         e \in EndLines }

\* what the device may answer to a request
Replies(op) ==
    CASE op = "ERR?" -> {OkLine, BusyLine}
      [] op = "#5" -> {OkLine, BusyLine}
      [] op = "*IDN?" -> {IdentityLine}
      [] op = "SPA? 1 0x07000601" -> {UnitLine, BadUnitLine}
      [] op = "POS?" -> {ValueLine(v) : v \in DevPositions}
      [] op = "TSP? 2" -> {ValueLine(v) : v \in DevPositions}
      [] op = "TMN?" -> {ValueLine(DevZMin)}
      [] op = "TMX?" -> {ValueLine(DevZMax)}
      [] op = "HLP?" -> HelpReplies
      [] OTHER -> {}

\* --------------------------------------------------------------- state
VARIABLES
    pc,             \* the statement the controller is at
    stack,          \* return labels of the calls in progress
    outcome,        \* how the last public call ended
    ready,          \* __init__ has returned
    port_open,      \* self.port is open
    identity,       \* self.identity
    z, z_min, z_max,        \* self.z, self.z_min, self.z_max
    moving,         \* self._moving
    analog_control, \* self._analog_control
    limits_set,     \* self._set_analogue_control_limits
    gain, offset,   \* self.gain, self.offset (fractions n/d)
    v_min, v_max, z_min_ai, z_max_ai,   \* stored analog limits
    error,          \* self.error
    responses,      \* responses of the _send in progress / last returned
    cmd, respond,   \* parameters of the _send in progress
    zarg, relative, block,  \* parameters of move_um
    largs,          \* parameters of set_analog_control_limits
    enable,         \* parameter of set_analog_control_enable
    z_target,       \* local of set_analog_control_enable
    pending,        \* requests written to the port the device has not answered
    inbuf,          \* bytes received by the port and not read
    lost,           \* number of requests the device has left unanswered
    early,          \* number of reads that may still time out before the
                    \* reply on its way arrives
    written,        \* commands written during the current public call
                    \* (consecutive motion-status requests recorded once)
    didread,        \* some read was performed during the current public call
    rawlines,       \* the lines read by the _send in progress, as received
    sendtrace,      \* bookkeeping of the last _send: its command, the ERR?
                    \* writes and reads that followed, and how it exited
    op,             \* the public operation in progress
    z0, moving0,    \* self.z and self._moving when it was called (for
                    \* __init__: self.z as first assigned, line 35)
    analog0,        \* self._analog_control when it was called
    handover        \* the cached position at the call of
                    \* set_analog_control_enable(True), until an operation
                    \* other than set_analog_control_enable is called

pos == <<z, z_min, z_max>>
flags == <<moving, analog_control, limits_set>>
calib == <<gain, offset, v_min, v_max, z_min_ai, z_max_ai>>
misc == <<identity>>
ctrl == <<pos, flags, calib, misc, error>>
margs == <<zarg, relative, block>>
sargs == <<cmd, respond>>
locals == <<sargs, margs, largs, enable, z_target, responses>>
wire == <<pending, inbuf, lost, early>>
hist == <<written, didread, rawlines, sendtrace>>
life == <<ready, port_open>>
entry == <<op, z0, moving0, analog0, handover>>
vars == <<pc, stack, outcome, life, entry, ctrl, locals, wire, hist>>

\* how a call ended: the exception's type and the source line raising it
NoOutcome == [kind |-> "none", line |-> 0, info |-> <<>>]
Outcome(kind) == [kind |-> kind, line |-> 0, info |-> <<>>]
NoFrac == [n |-> 0, d |-> 1]
NoLimits == [v_min |-> 0, v_max |-> 0, z_min_ai |-> 0, z_max_ai |-> 0]
NoHandover == [armed |-> FALSE, z |-> 0]
NoTrace == [cmd |-> ERR, errw |-> 0, errr |-> 0, reply |-> <<>>, exit |-> "none"]

Boot(e) ==
    /\ pc = "init" /\ stack = <<>> /\ outcome = NoOutcome
    /\ ready = FALSE /\ port_open = TRUE
    /\ identity = <<>> /\ error = <<>>
    /\ z = 0 /\ z_min = 0 /\ z_max = 0
    /\ moving = FALSE /\ analog_control = FALSE /\ limits_set = FALSE
    /\ gain = NoFrac /\ offset = NoFrac
    /\ v_min = 0 /\ v_max = 0 /\ z_min_ai = 0 /\ z_max_ai = 0
    /\ cmd = ERR /\ respond = FALSE
    /\ zarg = 0 /\ relative = FALSE /\ block = FALSE /\ enable = FALSE
    /\ largs = NoLimits
    /\ z_target = 0 /\ responses = <<>>
    /\ pending = <<>> /\ inbuf = <<>> /\ lost = 0 /\ early = e
    /\ written = <<>> /\ didread = FALSE /\ rawlines = <<>>
    /\ sendtrace = NoTrace
    /\ op = "__init__" /\ z0 = 0 /\ moving0 = FALSE /\ analog0 = FALSE
    /\ handover = NoHandover

\* every reply arrives before the read time-out or not at all
Init == Boot(0)

\* ------------------------------------------------------------ transport
\* port.write(c): the device receives the command; it will answer a query
WritePort(c) ==
    /\ written' = IF c = POLL /\ Len(written) > 0 /\ written[Len(written)] = POLL
                  THEN written ELSE Append(written, c)
    /\ pending' = IF c.op \in Queries THEN Append(pending, c.op) ELSE pending
    /\ inbuf' = inbuf /\ lost' = lost /\ early' = early

\* a read gives up (timeout=5) when no reply is on its way, or when the
\* reply on its way is late
MayTimeOut == pending = <<>> \/ early > 0

\* the time-outs left after a read that did (not) time out
Early(timedout) == IF timedout /\ pending # <<>> THEN early - 1 ELSE early

\* port.readline(): up to and including the first terminator, or, on a
\* timeout, whatever has been received
readline ==
    IF HasLF(inbuf)
    THEN {[data |-> SubSeq(inbuf, 1, FirstLF(inbuf)),
           rest |-> SubSeq(inbuf, FirstLF(inbuf) + 1, Len(inbuf))]}
    ELSE IF MayTimeOut THEN {[data |-> inbuf, rest |-> <<>>]} ELSE {}

\* port.read(2): two bytes, or, on a timeout, whatever has been received
read2 ==
    IF Len(inbuf) >= 2
    THEN {[data |-> SubSeq(inbuf, 1, 2), rest |-> SubSeq(inbuf, 3, Len(inbuf))]}
    ELSE IF MayTimeOut THEN {[data |-> inbuf, rest |-> <<>>]} ELSE {}

\* the device answers the oldest request it has not answered yet
DeviceReply ==
    /\ port_open /\ pending # <<>>
    /\ \E r \in Replies(Head(pending)) : inbuf' = inbuf \o r
    /\ pending' = Tail(pending) /\ lost' = lost /\ early' = early
    /\ UNCHANGED <<pc, stack, outcome, life, entry, ctrl, locals, hist>>

\* the device leaves the oldest request without a reply
DeviceSilent ==
    /\ port_open /\ pending # <<>>
    /\ lost < MaxLost
    /\ pending' = Tail(pending) /\ lost' = lost + 1 /\ early' = early
    /\ UNCHANGED <<pc, stack, outcome, life, entry, ctrl, locals, inbuf, hist>>

\* ------------------------------------------------------- control flow
Goto(l) == pc' = l /\ UNCHANGED <<stack, outcome>>

Return ==
    /\ pc' = Head(stack) /\ stack' = Tail(stack)
    /\ outcome' = IF Head(stack) = "returned" THEN Outcome("ok") ELSE outcome

\* an exception propagates to the caller of the public operation; an
\* exception in __init__ leaves no Controller
Raise(kind, line, info) ==
    /\ pc' = IF ready THEN "returned" ELSE "failed"
    /\ stack' = <<>>
    /\ outcome' = [kind |-> kind, line |-> line, info |-> info]

TraceRaise ==
    sendtrace' = IF sendtrace.exit = "active"
                 THEN [sendtrace EXCEPT !.exit = "raised"] ELSE sendtrace

\* a public operation is called on an idle, open Controller
Callable == pc = "idle" /\ port_open

\* the call has returned or raised: its caller goes on, the locals of the
\* call and the record of what it did are gone
caller ==
    /\ pc = "returned"
    /\ pc' = "idle" /\ stack' = <<>> /\ outcome' = NoOutcome
    /\ cmd' = ERR /\ respond' = FALSE
    /\ zarg' = 0 /\ relative' = FALSE /\ block' = FALSE /\ enable' = FALSE
    /\ largs' = NoLimits /\ z_target' = 0 /\ responses' = <<>>
    /\ written' = <<>> /\ didread' = FALSE /\ rawlines' = <<>>
    /\ sendtrace' = NoTrace
    /\ op' = "none" /\ z0' = 0 /\ moving0' = FALSE /\ analog0' = FALSE
    /\ handover' = handover
    /\ UNCHANGED <<life, ctrl, wire>>

Running == Outcome("running")

\* ------------------------------------------------------------- _send
\* lines 65-69 and 78-79: entry of _send(c, r), up to and including
\* port.write; retstack is the stack with _send's return label pushed
send(c, r, retstack, log) ==
    /\ cmd' = c /\ respond' = r
    /\ written' = Append(log, c)
    /\ pending' = IF c.op \in Queries THEN Append(pending, c.op) ELSE pending
    /\ inbuf' = inbuf /\ lost' = lost /\ early' = early
    /\ responses' = <<>>
    /\ rawlines' = <<>>
    /\ sendtrace' = [cmd |-> c, errw |-> 0, errr |-> 0, reply |-> <<>>,
                     exit |-> "active"]
    /\ pc' = IF r THEN "send_read" ELSE "send_check"
    /\ stack' = retstack

\* line 77 left out: only the one-byte line ends the response
LastLineNoMarker(response) == Len(response) = 1

\* line 76 left out: only a line without the marker ends the response
LastLineNoSentinel(response) == Len(response) > 1 /\ response[Len(response) - 1] # SP

\* lines 76-77: the response is complete
LastLine(response) == Len(response) = 1 \/ response[Len(response) - 1] # SP

\* lines 72-77: one pass of the response loop
send_read ==
    /\ pc = "send_read"
    /\ \E r \in readline :
        /\ inbuf' = r.rest /\ early' = Early(~HasLF(inbuf))
        /\ didread' = TRUE
        /\ rawlines' = Append(rawlines, r.data)
        /\ IF ~endswith_LF(r.data)
           THEN /\ Raise("AssertionError", 74, <<>>) /\ TraceRaise
                /\ UNCHANGED responses
           ELSE IF ~IsAscii(r.data)
           THEN /\ Raise("UnicodeDecodeError", 75, <<>>) /\ TraceRaise
                /\ UNCHANGED responses
           ELSE /\ responses' = Append(responses, rstrip(r.data))
                /\ IF LastLine(r.data) THEN Goto("send_check") ELSE Goto("send_read")
                /\ UNCHANGED sendtrace
    /\ UNCHANGED <<life, entry, ctrl, sargs, margs, largs, enable, z_target, pending, lost, written>>

\* line 82-83: assert self.port.in_waiting == 0, then call _check_errors
send_check ==
    /\ pc = "send_check"
    /\ IF Len(inbuf) # 0
       THEN Raise("AssertionError", 82, <<>>) /\ TraceRaise
       ELSE /\ pc' = "check_errors" /\ stack' = <<"send_return">> \o stack
            /\ UNCHANGED <<outcome, sendtrace>>
    /\ UNCHANGED <<life, entry, ctrl, locals, wire, written, didread, rawlines>>

\* line 89 accepting any reply that arrived
NoErrorLoose(reply) == reply # <<>>

\* line 89: 0 = no error
NoError(reply) == reply = OkLine

\* line 87: _check_errors writes the error query
check_errors ==
    /\ pc = "check_errors"
    /\ WritePort(ERR)
    /\ sendtrace' = IF sendtrace.exit = "active"
                    THEN [sendtrace EXCEPT !.errw = @ + 1] ELSE sendtrace
    /\ Goto("check_errors_read")
    /\ UNCHANGED <<life, entry, ctrl, locals, didread, rawlines>>

\* lines 88-92: _check_errors reads one line and compares it with b'0\n'
check_errors_read ==
    /\ pc = "check_errors_read"
    /\ \E r \in readline :
        /\ inbuf' = r.rest /\ early' = Early(~HasLF(inbuf))
        /\ error' = r.data
        /\ didread' = TRUE
        /\ IF ~NoError(r.data)
           THEN /\ Raise("RuntimeError", 90, r.data)
                /\ sendtrace' = IF sendtrace.exit = "active"
                                THEN [sendtrace EXCEPT !.errr = @ + 1, !.reply = r.data,
                                                       !.exit = "raised"]
                                ELSE sendtrace
           ELSE /\ Return
                /\ sendtrace' = IF sendtrace.exit = "active"
                                THEN [sendtrace EXCEPT !.errr = @ + 1, !.reply = r.data]
                                ELSE sendtrace
    /\ UNCHANGED <<life, entry, pos, flags, calib, misc, locals, pending, lost, written, rawlines>>

\* line 84: return responses
send_return ==
    /\ pc = "send_return"
    /\ Return
    /\ sendtrace' = [sendtrace EXCEPT !.exit = "returned"]
    /\ UNCHANGED <<life, entry, ctrl, locals, wire, written, didread, rawlines>>

\* ------------------------------------------------------ _finish_moving
\* lines 142-143: entry of _finish_moving; ret is the statement after the
\* call and stk the stack at the call
finish_moving_then(ret, stk) ==
    IF moving
    THEN pc' = "finish_moving" /\ stack' = <<ret>> \o stk
    ELSE pc' = ret /\ stack' = stk

\* line 147 leaving the loop on any reply that arrived
IdleAny(response) == response # <<>>

\* line 147: the reply that ends the poll loop
Idle(response) == response = OkLine

\* line 145: Request Motion Status
finish_moving ==
    /\ pc = "finish_moving"
    /\ WritePort(POLL)
    /\ Goto("finish_moving_read")
    /\ UNCHANGED <<life, entry, ctrl, locals, didread, rawlines, sendtrace>>

\* lines 146-150: read(2); leave the loop on b'0\n', clear the flag and
\* check for errors, else poll again
finish_moving_read ==
    /\ pc = "finish_moving_read"
    /\ \E r \in read2 :
        /\ inbuf' = r.rest /\ early' = Early(Len(inbuf) < 2)
        /\ didread' = TRUE
        /\ IF Idle(r.data)
           THEN moving' = FALSE /\ Goto("check_errors")
           ELSE moving' = moving /\ Goto("finish_moving")
    /\ UNCHANGED <<life, entry, pos, analog_control, limits_set, calib, misc, error,
                   locals, pending, lost, written, rawlines, sendtrace>>

\* ------------------------------------------------------------ move_um
MoveArgs == {-1, 0, 1, DevZMin + 2, DevZMax + 1}

\* the cached position stays within ZOver of the limits (model bound)
InModelRange(t) == z_min - ZOver <= t /\ t <= z_max + ZOver

\* line 159-160: move_um(a, r, b) is called and calls _finish_moving
move_um ==
    /\ Callable
    /\ op' = "move_um" /\ z0' = z /\ moving0' = moving /\ analog0' = analog_control
    /\ handover' = NoHandover
    /\ \E a \in MoveArgs, r \in BOOLEAN, b \in BOOLEAN :
        /\ InModelRange(IF r THEN z + a ELSE a)
        /\ zarg' = a /\ relative' = r /\ block' = b
    /\ outcome' = Running /\ written' = <<>> /\ didread' = FALSE
    /\ finish_moving_then("move_um_check", <<"returned">>)
    /\ UNCHANGED <<life, ctrl, sargs, largs, enable, z_target, responses, wire,
                   rawlines, sendtrace>>

\* the assertion of line 161 left out
ServoModeOff == TRUE

\* line 161: assert not self._analog_control
ServoMode == ~analog_control

\* the assertion of line 168 off by the tolerance
InRangeLoose(t) == z_min - z_tol_um <= t /\ t <= z_max + z_tol_um

\* line 168: assert self.z_min <= self.z <= self.z_max
InRange(t) == z_min <= t /\ t <= z_max

\* lines 161-172: the mode assertion, the new cached position, the range
\* assertion and the start of _send('MOV 1 ...', respond=False)
move_um_check ==
    /\ pc = "move_um_check"
    /\ IF ~ServoMode
       THEN /\ Raise("AssertionError", 161, <<>>)
            /\ UNCHANGED <<z, sargs, responses, wire, written, rawlines, sendtrace>>
       ELSE LET t == IF relative THEN z + zarg ELSE zarg IN
            /\ z' = t
            /\ IF ~InRange(t)
               THEN /\ Raise("AssertionError", 168, <<>>)
                    /\ UNCHANGED <<sargs, responses, wire, written, rawlines, sendtrace>>
               ELSE /\ send(Cmd("MOV", t), FALSE, <<"move_um_sent">> \o stack, written)
                    /\ UNCHANGED outcome
    /\ UNCHANGED <<life, entry, z_min, z_max, flags, calib, misc, error, margs, largs, enable,
                   z_target, didread>>

\* lines 173-175 with the assignment of line 173 left out
move_um_sent_noflag ==
    /\ pc = "move_um_sent"
    /\ moving' = moving
    /\ IF block
       THEN pc' = "finish_moving" /\ stack' = <<"move_um_return">> \o stack
            /\ UNCHANGED outcome
       ELSE Return
    /\ UNCHANGED <<life, entry, pos, analog_control, limits_set, calib, misc, error,
                   locals, wire, hist>>

\* lines 173-175: the move was sent; resolve it now if block
move_um_sent ==
    /\ pc = "move_um_sent"
    /\ moving' = TRUE
    /\ IF block
       THEN pc' = "finish_moving" /\ stack' = <<"move_um_return">> \o stack
            /\ UNCHANGED outcome
       ELSE Return
    /\ UNCHANGED <<life, entry, pos, analog_control, limits_set, calib, misc, error,
                   locals, wire, hist>>

\* line 176: return None
move_um_return ==
    /\ pc = "move_um_return"
    /\ Return
    /\ UNCHANGED <<life, entry, ctrl, locals, wire, hist>>

\* ------------------------------------------------------- get_position
\* lines 153-155: get_position sends POS?
get_position ==
    /\ Callable
    /\ op' = "get_position" /\ z0' = z /\ moving0' = moving /\ analog0' = analog_control
    /\ handover' = NoHandover
    /\ outcome' = Running /\ didread' = FALSE
    /\ send(Cmd("POS?", 0), TRUE, <<"get_position_parse", "returned">>, <<>>)
    /\ UNCHANGED <<life, ctrl, margs, largs, enable, z_target>>

\* lines 155-157: self.z = float(response[0].split('=')[1])
get_position_parse ==
    /\ pc = "get_position_parse"
    /\ IF CanParse(responses[1])
       THEN z' = ParseValue(responses[1]) /\ Return
       ELSE z' = z /\ Raise("ValueError", 155, <<>>)
    /\ z0' = IF op = "__init__" THEN z' ELSE z0
    /\ UNCHANGED <<life, op, moving0, analog0, handover, z_min, z_max, flags, calib, misc,
                   error, locals, wire, hist>>

\* ----------------------------------------------------------- __init__
\* line 28: self.identity = self._send('*IDN?')[0]
init ==
    /\ pc = "init"
    /\ send(Cmd("*IDN?", 0), TRUE, <<"init_unit">>, written)
    /\ UNCHANGED <<outcome, life, entry, ctrl, margs, largs, enable, z_target, didread>>

\* lines 28-30: store the identity and write the unit query (no _send)
init_unit ==
    /\ pc = "init_unit"
    /\ identity' = responses[1]
    /\ WritePort(Cmd("SPA? 1 0x07000601", 0))
    /\ Goto("init_unit_read")
    /\ UNCHANGED <<life, entry, pos, flags, calib, error, locals, didread,
                   rawlines, sendtrace>>

\* lines 31-33: read the unit and assert it is 'µM'
init_unit_read ==
    /\ pc = "init_unit_read"
    /\ \E r \in readline :
        LET fields == split_eq(rstrip(r.data)) IN
        /\ inbuf' = r.rest /\ early' = Early(~HasLF(inbuf))
        /\ IF Len(fields) < 2
           THEN Raise("IndexError", 31, <<>>)
           ELSE IF fields[2] # <<Micro, ChrM>>
           THEN Raise("AssertionError", 33, <<>>)
           ELSE Goto("init_position")
    /\ didread' = TRUE
    /\ UNCHANGED <<life, entry, ctrl, locals, pending, lost, written, rawlines, sendtrace>>

\* line 35: self.get_position(verbose=False)
init_position ==
    /\ pc = "init_position"
    /\ send(Cmd("POS?", 0), TRUE, <<"get_position_parse", "init_limits">>, written)
    /\ UNCHANGED <<outcome, life, entry, ctrl, margs, largs, enable, z_target, didread>>

\* line 36: self._send('TMN?')
init_limits ==
    /\ pc = "init_limits"
    /\ send(Cmd("TMN?", 0), TRUE, <<"init_z_min">> \o stack, written)
    /\ UNCHANGED <<outcome, life, entry, ctrl, margs, largs, enable, z_target, didread>>

\* lines 36-37: self.z_min = float(...); self._send('TMX?')
init_z_min ==
    /\ pc = "init_z_min"
    /\ IF CanParse(responses[1])
       THEN /\ z_min' = ParseValue(responses[1])
            /\ send(Cmd("TMX?", 0), TRUE, <<"init_z_max">> \o stack, written)
            /\ UNCHANGED outcome
       ELSE /\ Raise("ValueError", 36, <<>>)
            /\ UNCHANGED <<z_min, sargs, responses, wire, written, rawlines, sendtrace>>
    /\ UNCHANGED <<life, entry, z, z_max, flags, calib, misc, error, margs, largs, enable,
                   z_target, didread>>

\* lines 37-39: self.z_max = float(...); the flags are initialised
init_z_max ==
    /\ pc = "init_z_max"
    /\ IF CanParse(responses[1])
       THEN /\ z_max' = ParseValue(responses[1])
            /\ moving' = FALSE /\ analog_control' = FALSE
            /\ Goto("init_legal_low")
       ELSE /\ Raise("ValueError", 37, <<>>)
            /\ UNCHANGED <<z_max, moving, analog_control>>
    /\ UNCHANGED <<life, entry, z, z_min, limits_set, calib, misc, error, locals, wire, hist>>

\* line 41 comparing with the limit itself
AtLowerLimitStrict == z <= z_min

\* line 41: the position is at the lower limit, within the tolerance
AtLowerLimit == z <= z_min + z_tol_um

\* line 43: the position is at the upper limit, within the tolerance
AtUpperLimit == z >= z_max - z_tol_um

\* lines 41-42: move off the lower limit
init_legal_low ==
    /\ pc = "init_legal_low"
    /\ IF AtLowerLimit
       THEN /\ zarg' = z_min + z_tol_um /\ relative' = FALSE /\ block' = TRUE
            /\ finish_moving_then("move_um_check", <<"init_legal_high">> \o stack)
       ELSE /\ pc' = "init_legal_high"
            /\ UNCHANGED <<stack, margs>>
    /\ UNCHANGED <<outcome, life, entry, ctrl, sargs, largs, enable, z_target, responses, wire, hist>>

\* lines 43-44: move off the upper limit
init_legal_high ==
    /\ pc = "init_legal_high"
    /\ IF AtUpperLimit
       THEN /\ zarg' = z_max - z_tol_um /\ relative' = FALSE /\ block' = TRUE
            /\ finish_moving_then("move_um_check", <<"init_servo">> \o stack)
       ELSE /\ pc' = "init_servo"
            /\ UNCHANGED <<stack, margs>>
    /\ UNCHANGED <<outcome, life, entry, ctrl, sargs, largs, enable, z_target, responses, wire, hist>>

\* lines 46 and 132-134: self._set_servo_enable(True)
init_servo ==
    /\ pc = "init_servo"
    /\ send(Cmd("SVO 1", 1), FALSE, <<"init_ccl">> \o stack, written)
    /\ UNCHANGED <<outcome, life, entry, ctrl, margs, largs, enable, z_target, didread>>

\* lines 47-48: the limits flag is cleared; 'CCL 1 advanced'
init_ccl ==
    /\ pc = "init_ccl"
    /\ limits_set' = FALSE
    /\ send(Cmd("CCL 1 advanced", 0), FALSE, <<"init_disable_analog">> \o stack, written)
    /\ UNCHANGED <<outcome, life, entry, pos, moving, analog_control, calib, misc, error,
                   margs, largs, enable, z_target, didread>>

\* line 49: 'SPA 1 0x06000500 0'
init_disable_analog ==
    /\ pc = "init_disable_analog"
    /\ send(Cmd("SPA 1 0x06000500", 0), FALSE, <<"init_return">> \o stack, written)
    /\ UNCHANGED <<outcome, life, entry, ctrl, margs, largs, enable, z_target, didread>>

\* line 52: __init__ returns
init_return ==
    /\ pc = "init_return"
    /\ ready' = TRUE
    /\ pc' = "returned" /\ stack' = <<>> /\ outcome' = Outcome("ok")
    /\ UNCHANGED <<entry, port_open, ctrl, locals, wire, hist>>

\* -------------------------------------------- set_analog_control_limits
Volts == {0, 10, 11}
AiLimits == {DevZMin - 1, DevZMin + 1, DevZMax}

\* lines 183-188 with the assertion of line 184 left out
LimitsOkAnyVolts(a) ==
    /\ a.v_min < a.v_max
    /\ a.z_min_ai < a.z_max_ai
    /\ z_min <= a.z_min_ai /\ a.z_max_ai <= z_max
    /\ z >= a.z_min_ai - z_tol_um
    /\ z <= a.z_max_ai + z_tol_um

\* lines 183-188: the assertions on the requested limits
LimitsOk(a) ==
    /\ a.v_min < a.v_max
    /\ -10 <= a.v_min /\ a.v_min <= 10 /\ -10 <= a.v_max /\ a.v_max <= 10
    /\ a.z_min_ai < a.z_max_ai
    /\ z_min <= a.z_min_ai /\ a.z_max_ai <= z_max
    /\ z >= a.z_min_ai - z_tol_um
    /\ z <= a.z_max_ai + z_tol_um

\* line 190 without the factor 0.1
GainNoTenth(a) == [n |-> a.z_max_ai - a.z_min_ai, d |-> a.v_max - a.v_min]

\* line 190: gain = 0.1 * (z_max_ai - z_min_ai) / (v_max - v_min)
Gain(a) == [n |-> a.z_max_ai - a.z_min_ai, d |-> 10 * (a.v_max - a.v_min)]

\* line 191: offset = z_max_ai - gain * (10 * v_max)
Offset(a, g) == [n |-> a.z_max_ai * g.d - g.n * 10 * a.v_max, d |-> g.d]

\* lines 178-192: set_analog_control_limits(a.v_min, a.v_max, a.z_min_ai,
\* a.z_max_ai) is called: the assertions, gain and offset, and the first
\* _send
analog_control_limits(a) ==
    /\ Callable
    /\ op' = "set_analog_control_limits" /\ z0' = z /\ moving0' = moving /\ analog0' = analog_control
    /\ handover' = NoHandover
    /\ largs' = a
    /\ IF ~LimitsOk(a)
       THEN /\ Raise("AssertionError", 183, <<>>)
            /\ written' = <<>>
            /\ UNCHANGED <<gain, offset, sargs, responses, wire, rawlines, sendtrace>>
       ELSE /\ gain' = Gain(a)
            /\ offset' = Offset(a, Gain(a))
            /\ send(CmdFrac("SPA 2 0x02000300", Gain(a).n, Gain(a).d), FALSE,
                    <<"limits_offset", "returned">>, <<>>)
            /\ outcome' = Running
    /\ didread' = FALSE
    /\ UNCHANGED <<life, pos, flags, v_min, v_max, z_min_ai, z_max_ai, misc, error,
                   margs, enable, z_target>>

set_analog_control_limits ==
    \E a \in [v_min : Volts, v_max : Volts, z_min_ai : AiLimits, z_max_ai : AiLimits] :
        analog_control_limits(a)

\* line 193: the offset is sent
limits_offset ==
    /\ pc = "limits_offset"
    /\ send(CmdFrac("SPA 2 0x02000200", offset.n, offset.d), FALSE,
            <<"limits_store">> \o stack, written)
    /\ UNCHANGED <<outcome, life, entry, ctrl, margs, largs, enable, z_target, didread>>

\* lines 197-200: the limits are stored and the flag is set
limits_store ==
    /\ pc = "limits_store"
    /\ v_min' = largs.v_min /\ v_max' = largs.v_max
    /\ z_min_ai' = largs.z_min_ai /\ z_max_ai' = largs.z_max_ai
    /\ limits_set' = TRUE
    /\ Return
    /\ UNCHANGED <<life, entry, pos, moving, analog_control, gain, offset, misc, error,
                   locals, wire, hist>>

\* ---------------------------------------------- get_voltage_for_move_um
\* fractions n/d with d > 0
Frac(i) == [n |-> i, d |-> 1]

Less(a, b) == a.n * b.d < b.n * a.d

\* line 211: z_voltage = float(z - self.offset) / (self.gain * 10)
RawVoltage(t) ==
    [n |-> (t * offset.d - offset.n) * gain.d, d |-> offset.d * 10 * gain.n]

\* lines 212-213 with the test of line 213 left out
LegalizeLow(v) == IF Less(v, Frac(v_min)) THEN Frac(v_min) ELSE v

\* lines 212-213: legalize edge cases
Legalize(v) ==
    LET a == IF Less(v, Frac(v_min)) THEN Frac(v_min) ELSE v
    IN  IF Less(Frac(v_max), a) THEN Frac(v_max) ELSE a

\* lines 202-216: get_voltage_for_move_um(a, r) is called; it performs no
\* transport I/O and returns the voltage <<n, d>>
voltage_for_move_um(a, r) ==
    /\ Callable
    /\ op' = "get_voltage_for_move_um" /\ z0' = z /\ moving0' = moving /\ analog0' = analog_control
    /\ handover' = NoHandover
    /\ zarg' = a /\ relative' = r /\ block' = block
    /\ LET t == IF r THEN z + a ELSE a IN
       IF ~limits_set
       THEN Raise("AssertionError", 205, <<>>)
       ELSE IF t < z_min_ai - z_tol_um
       THEN Raise("AssertionError", 207, <<>>)
       ELSE IF t > z_max_ai + z_tol_um
       THEN Raise("AssertionError", 208, <<>>)
       ELSE LET v == Legalize(RawVoltage(t)) IN
            /\ pc' = "returned" /\ stack' = <<>>
            /\ outcome' = [kind |-> "ok", line |-> 0, info |-> <<v.n, v.d>>]
    /\ written' = <<>> /\ didread' = FALSE
    /\ UNCHANGED <<life, ctrl, sargs, largs, enable, z_target, responses, wire,
                   rawlines, sendtrace>>

get_voltage_for_move_um ==
    \E a \in MoveArgs, r \in BOOLEAN : voltage_for_move_um(a, r)

\* -------------------------------------------- set_analog_control_enable
\* the assertion of line 221 left out
LimitsAssumed == TRUE

\* line 221: assert self._set_analogue_control_limits
LimitsConfigured == limits_set

\* lines 221-225: the assertion and the first _send of
\* set_analog_control_enable(en); retstack is the stack at the call with
\* the return label pushed, log the commands written so far by the caller
analog_control_enable(en, retstack, log) ==
    /\ enable' = en
    /\ IF ~LimitsConfigured
       THEN /\ Raise("AssertionError", 221, <<>>)
            /\ written' = log
            /\ UNCHANGED <<sargs, responses, wire, rawlines, sendtrace>>
       ELSE IF en
       THEN /\ send(Cmd("SPA 1 0x06000500", 2), FALSE, <<"analog_set">> \o retstack, log)
            /\ outcome' = Running
       ELSE /\ send(Cmd("TSP? 2", 0), TRUE, <<"analog_clamp">> \o retstack, log)
            /\ outcome' = Running

\* line 218: set_analog_control_enable(en) is called
set_analog_control_enable ==
    /\ Callable
    /\ op' = "set_analog_control_enable" /\ z0' = z /\ moving0' = moving /\ analog0' = analog_control
    /\ \E en \in BOOLEAN :
        /\ analog_control_enable(en, <<"returned">>, <<>>)
        /\ handover' = IF en THEN [armed |-> TRUE, z |-> z] ELSE handover
    /\ didread' = FALSE
    /\ UNCHANGED <<life, ctrl, margs, largs, z_target>>

\* lines 225-229 with the analog-disable write of line 228 left out
analog_clamp_nodisable ==
    /\ pc = "analog_clamp"
    /\ IF CanParse(responses[1])
       THEN LET t == ParseValue(responses[1])
                c == IF t < z_min THEN z_min ELSE IF t > z_max THEN z_max ELSE t IN
            /\ z_target' = c
            /\ send(Cmd("MOV", c), FALSE, <<"analog_set">> \o stack, written)
            /\ UNCHANGED outcome
       ELSE /\ Raise("ValueError", 225, <<>>)
            /\ UNCHANGED <<z_target, sargs, responses, wire, written, rawlines, sendtrace>>
    /\ UNCHANGED <<life, entry, ctrl, margs, largs, enable, didread>>

\* lines 225-228: the realized position is clamped into the limits and
\* analog control is disabled
analog_clamp ==
    /\ pc = "analog_clamp"
    /\ IF CanParse(responses[1])
       THEN LET t == ParseValue(responses[1]) IN
            /\ z_target' = (IF t < z_min THEN z_min ELSE IF t > z_max THEN z_max ELSE t)
            /\ send(Cmd("SPA 1 0x06000500", 0), FALSE, <<"analog_resync">> \o stack, written)
            /\ UNCHANGED outcome
       ELSE /\ Raise("ValueError", 225, <<>>)
            /\ UNCHANGED <<z_target, sargs, responses, wire, written, rawlines, sendtrace>>
    /\ UNCHANGED <<life, entry, ctrl, margs, largs, enable, didread>>

\* line 229: the move to the realized position
analog_resync ==
    /\ pc = "analog_resync"
    /\ send(Cmd("MOV", z_target), FALSE, <<"analog_set">> \o stack, written)
    /\ UNCHANGED <<outcome, life, entry, ctrl, margs, largs, enable, z_target, didread>>

\* line 230 assigning True whatever the argument
analog_set_always ==
    /\ pc = "analog_set"
    /\ analog_control' = TRUE
    /\ Return
    /\ UNCHANGED <<life, entry, pos, moving, limits_set, calib, misc, error, locals, wire, hist>>

\* lines 230-231: self._analog_control = enable
analog_set ==
    /\ pc = "analog_set"
    /\ analog_control' = enable
    /\ Return
    /\ UNCHANGED <<life, entry, pos, moving, limits_set, calib, misc, error, locals, wire, hist>>

\* --------------------------------------------------------------- close
\* lines 233-235: close() is called and calls _finish_moving
close ==
    /\ Callable
    /\ op' = "close" /\ z0' = z /\ moving0' = moving /\ analog0' = analog_control
    /\ handover' = NoHandover
    /\ outcome' = Running /\ written' = <<>> /\ didread' = FALSE
    /\ finish_moving_then("close_analog", <<"returned">>)
    /\ UNCHANGED <<life, ctrl, locals, wire, rawlines, sendtrace>>

\* lines 236-237 left out: the port is closed in whatever mode
close_analog_skip ==
    /\ pc = "close_analog"
    /\ Goto("close_port")
    /\ UNCHANGED <<enable, sargs, responses, wire, written, rawlines, sendtrace>>
    /\ UNCHANGED <<life, entry, ctrl, margs, largs, z_target, didread>>

\* lines 236-237: analog control is disabled if it is active
close_analog ==
    /\ pc = "close_analog"
    /\ IF analog_control
       THEN analog_control_enable(FALSE, <<"close_port">> \o stack, written)
       ELSE /\ Goto("close_port")
            /\ UNCHANGED <<enable, sargs, responses, wire, written, rawlines, sendtrace>>
    /\ UNCHANGED <<life, entry, ctrl, margs, largs, z_target, didread>>

\* lines 238-240: the port is closed
close_port ==
    /\ pc = "close_port"
    /\ port_open' = FALSE
    /\ pc' = "closed" /\ stack' = <<>> /\ outcome' = Outcome("ok")
    /\ UNCHANGED <<entry, ready, ctrl, locals, wire, hist>>

\* ------------------------------------------------------- _get_cmd_list
\* line 97: self._send('HLP?')
get_cmd_list ==
    /\ Callable
    /\ op' = "_get_cmd_list" /\ z0' = z /\ moving0' = moving /\ analog0' = analog_control
    /\ handover' = NoHandover
    /\ outcome' = Running /\ didread' = FALSE
    /\ send(Cmd("HLP?", 0), TRUE, <<"cmd_list_store", "returned">>, <<>>)
    /\ UNCHANGED <<life, ctrl, margs, largs, enable, z_target>>

\* lines 97-102: the responses are the command list, which is returned
cmd_list_store ==
    /\ pc = "cmd_list_store"
    /\ Return
    /\ UNCHANGED <<life, entry, ctrl, locals, wire, hist>>

\* ---------------------------------------------------------------- Next
Next ==
    \/ init \/ init_unit \/ init_unit_read \/ init_position \/ init_limits
    \/ init_z_min \/ init_z_max \/ init_legal_low \/ init_legal_high
    \/ init_servo \/ init_ccl \/ init_disable_analog \/ init_return
    \/ send_read \/ send_check \/ send_return
    \/ check_errors \/ check_errors_read
    \/ finish_moving \/ finish_moving_read
    \/ move_um \/ move_um_check \/ move_um_sent \/ move_um_return
    \/ get_position \/ get_position_parse
    \/ set_analog_control_limits \/ limits_offset \/ limits_store
    \/ set_analog_control_enable \/ analog_clamp \/ analog_resync \/ analog_set
    \/ close \/ close_analog \/ close_port
    \/ get_voltage_for_move_um
    \/ get_cmd_list \/ cmd_list_store
    \/ caller
    \/ DeviceReply \/ DeviceSilent

Spec == Init /\ [][Next]_vars

\* the controller's own steps (everything but the calls of its user and
\* the device)
Controller ==
    \/ init \/ init_unit \/ init_unit_read \/ init_position \/ init_limits
    \/ init_z_min \/ init_z_max \/ init_legal_low \/ init_legal_high
    \/ init_servo \/ init_ccl \/ init_disable_analog \/ init_return
    \/ send_read \/ send_check \/ send_return
    \/ check_errors \/ check_errors_read
    \/ finish_moving \/ finish_moving_read
    \/ move_um_check \/ move_um_sent \/ move_um_return
    \/ get_position_parse
    \/ limits_offset \/ limits_store
    \/ analog_clamp \/ analog_resync \/ analog_set
    \/ close_analog \/ close_port
    \/ cmd_list_store

\* the interpreter keeps running the controller's code and the device
\* keeps answering the requests it has not dropped
FairSpec == Init /\ [][Next]_vars /\ WF_vars(Controller) /\ WF_vars(DeviceReply)

\* ------------------------------------------------------- late replies
\* A reply may arrive after the read waiting for it has timed out
\* (timeout=5, line 23): the constructor, moves and close.
LateInit == Boot(MaxEarly)

LateNext ==
    \/ init \/ init_unit \/ init_unit_read \/ init_position \/ init_limits
    \/ init_z_min \/ init_z_max \/ init_legal_low \/ init_legal_high
    \/ init_servo \/ init_ccl \/ init_disable_analog \/ init_return
    \/ send_read \/ send_check \/ send_return
    \/ check_errors \/ check_errors_read
    \/ finish_moving \/ finish_moving_read
    \/ move_um \/ move_um_check \/ move_um_sent \/ move_um_return
    \/ get_position_parse
    \/ close \/ close_analog \/ close_port
    \/ caller
    \/ DeviceReply \/ DeviceSilent

LateSpec == LateInit /\ [][LateNext]_vars

\* ----------------------------------------------------- the analog demo
\* The calibration of the __main__ demo (lines 259-263) on a stage of
\* 100 um: positions are in units of z_tol_um = 0.25 um.
UnitsPerUm == 4

Um(x) == UnitsPerUm * x

CalZMax == Um(100)

CalibArgs ==
    [v_min : {-10, 0}, v_max : {5, 10}, z_min_ai : {0, Um(25)},
     z_max_ai : {Um(75), Um(100)}]

CalibMoves == {-1, 0, 1, Um(50), Um(100) + 1}

\* the Controller after initialization and move_um(50, relative=False)
CalibInit ==
    /\ pc = "idle" /\ stack = <<>> /\ outcome = NoOutcome
    /\ ready = TRUE /\ port_open = TRUE
    /\ identity = <<ChrI>> /\ error = OkLine
    /\ z = Um(50) /\ z_min = 0 /\ z_max = CalZMax
    /\ moving = FALSE /\ analog_control = FALSE /\ limits_set = FALSE
    /\ gain = NoFrac /\ offset = NoFrac
    /\ v_min = 0 /\ v_max = 0 /\ z_min_ai = 0 /\ z_max_ai = 0
    /\ cmd = ERR /\ respond = FALSE
    /\ zarg = 0 /\ relative = FALSE /\ block = FALSE /\ enable = FALSE
    /\ largs = NoLimits
    /\ z_target = 0 /\ responses = <<>>
    /\ pending = <<>> /\ inbuf = <<>> /\ lost = 0 /\ early = 0
    /\ written = <<>> /\ didread = FALSE /\ rawlines = <<>>
    /\ sendtrace = NoTrace
    /\ op = "none" /\ z0 = 0 /\ moving0 = FALSE /\ analog0 = FALSE
    /\ handover = NoHandover

calibrate == \E a \in CalibArgs : analog_control_limits(a)

calib_voltage == \E a \in CalibMoves, r \in BOOLEAN : voltage_for_move_um(a, r)

CalibNext ==
    \/ calibrate \/ limits_offset \/ limits_store
    \/ calib_voltage
    \/ send_check \/ send_return
    \/ check_errors \/ check_errors_read
    \/ caller
    \/ DeviceReply

CalibSpec == CalibInit /\ [][CalibNext]_vars

\* ================================================================ claims
\* the absolute position a call move_um(zarg, relative) asks for
Target == IF relative THEN z0 + zarg ELSE zarg

OutsideLimits(t) == t < z_min \/ t > z_max

HasMOV(w) == \E i \in 1..Len(w) : w[i].op = "MOV"

Returned(o) == pc = "returned" /\ op = o

\* ---------------------------------------------------------------- C1
\* C1 as stated: whatever the state, a move_um whose target lies outside
\* [z_min, z_max] fails with the range error and has written nothing.
C1_Original ==
    (Returned("move_um") /\ OutsideLimits(Target))
        => /\ outcome.kind = "AssertionError" /\ outcome.line = 168
           /\ written = <<>>

\* C1 (amended): a move_um whose target lies outside [z_min, z_max] never
\* writes a MOV command and fails; when no earlier move is outstanding it
\* performs no transport I/O at all and fails with the range error (with
\* the mode error if analog control is active).
C1_RejectedMoveWritesNoMOV ==
    (op = "move_um" /\ OutsideLimits(Target))
        => /\ ~HasMOV(written)
           /\ (~moving0 => written = <<>> /\ ~didread)
           /\ (pc = "returned" => outcome.kind # "ok")
           /\ (pc = "returned" /\ ~moving0
                 => /\ outcome.kind = "AssertionError"
                    /\ outcome.line = IF analog_control THEN 161 ELSE 168)

C1_Witness ==
    /\ Returned("move_um") /\ OutsideLimits(Target) /\ ~moving0
    /\ outcome.line = 168 /\ written = <<>>

C3_Original ==
    (Returned("move_um") /\ ~OutsideLimits(z0)) => ~OutsideLimits(z)

\* ---------------------------------------------------------------- C4
JustWroteMOV == pc = "send_check" /\ cmd.op = "MOV" /\ sendtrace.exit = "active"

\* C4 as stated: no MOV is written while the analog-control-active flag is
\* true.
C4_Original == JustWroteMOV => ~analog_control

\* C4 (amended): move_um writes no MOV while the analog-control-active flag
\* is true; a MOV written while the flag is true is the resynchronising MOV
\* of set_analog_control_enable(False), written after the analog-disable
\* parameter write of the same call has passed its error check.
C4_MOVOnlyAfterAnalogDisable ==
    (JustWroteMOV /\ analog_control)
        => /\ op \in {"set_analog_control_enable", "close"}
           /\ enable = FALSE
           /\ Len(written) >= 3
           /\ written[Len(written) - 2] = Cmd("SPA 1 0x06000500", 0)
           /\ written[Len(written) - 1] = ERR
           /\ error = OkLine

C4_Witness == JustWroteMOV /\ analog_control /\ op = "set_analog_control_enable"

\* ---------------------------------------------------------------- C5
\* C5: analog control active implies the analog limits are configured;
\* set_analog_control_enable before the limits are configured fails
\* without writing anything; once the controller is constructed the
\* limits-configured flag is never reset.
C5_AnalogNeedsLimits ==
    /\ [](analog_control => limits_set)
    /\ []((Returned("set_analog_control_enable") /\ ~limits_set)
            => /\ outcome.kind = "AssertionError" /\ outcome.line = 221
               /\ written = <<>>)
    /\ [][(ready /\ limits_set) => limits_set']_vars

C5_Witness ==
    /\ Returned("set_analog_control_enable") /\ outcome.kind = "ok"
    /\ analog_control /\ limits_set

\* ---------------------------------------------------------------- C6
SendExited == sendtrace.exit \in {"returned", "raised"}

\* C6: every command written by _send, with or without an expected
\* response, is followed before _send returns by exactly one ERR? write and
\* one reply read; _send returns normally only if the reply is b'0\n' and
\* raises the error carrying the reply otherwise.  A _send that ends on one
\* of its framing assertions (lines 74, 75, 82) raises before the error
\* check and has written no ERR?.
C6_ErrorCheckAfterSend ==
    /\ sendtrace.exit = "returned"
         => /\ sendtrace.errw = 1 /\ sendtrace.errr = 1
            /\ sendtrace.reply = OkLine
    /\ sendtrace.exit = "raised"
         => \/ /\ sendtrace.errw = 1 /\ sendtrace.errr = 1
               /\ sendtrace.reply # OkLine
               /\ outcome.kind = "RuntimeError" /\ outcome.info = sendtrace.reply
            \/ /\ sendtrace.errw = 0 /\ sendtrace.errr = 0
               /\ outcome.line \in {74, 75, 82}
    /\ sendtrace.exit = "active" /\ written # <<>> /\ pc # "check_errors_read"
         => (sendtrace.errw = 0 <=> written[Len(written)] = sendtrace.cmd)

C6_Witness ==
    /\ sendtrace.exit = "raised" /\ ~respond
    /\ sendtrace.errw = 1 /\ sendtrace.errr = 1 /\ sendtrace.reply = BusyLine

\* ---------------------------------------------------------------- C7
\* the response loop of the _send in progress has ended normally
ResponseRead ==
    /\ respond
    /\ \/ sendtrace.exit = "active" /\ pc # "send_read"
       \/ sendtrace.exit = "returned" /\ sendtrace.cmd = cmd

\* the line ends the response: one byte long, or no space before the
\* terminator
StopLine(l) == Len(l) = 1 \/ l[Len(l) - 1] # SP

\* s is l without its trailing whitespace
Stripped(s, l) ==
    /\ Len(s) <= Len(l)
    /\ s = SubSeq(l, 1, Len(s))
    /\ \A i \in (Len(s) + 1)..Len(l) : IsSpace(l[i])
    /\ (Len(s) > 0 => ~IsSpace(s[Len(s)]))

\* C7: a _send that expects a response stops reading at the first line
\* that is one byte long or has no space before the terminator, and its
\* result is the lines read, in order, each without trailing whitespace.
C7_ResponseFraming ==
    /\ pc = "send_read" => \A i \in 1..Len(rawlines) : ~StopLine(rawlines[i])
    /\ ResponseRead
         => /\ Len(rawlines) >= 1
            /\ StopLine(rawlines[Len(rawlines)])
            /\ \A i \in 1..(Len(rawlines) - 1) : ~StopLine(rawlines[i])
            /\ Len(responses) = Len(rawlines)
            /\ \A i \in 1..Len(rawlines) : Stripped(responses[i], rawlines[i])

C7_Witness ==
    /\ ResponseRead /\ pc = "send_return"
    /\ Len(rawlines) = 2 /\ rawlines[2] = <<ChrA, CR, LF>>

\* ---------------------------------------------------------------- C8
\* C8 as stated: when the response loop ends on a one-byte line the result
\* has exactly one element.
C8_Original ==
    (ResponseRead /\ Len(rawlines[Len(rawlines)]) = 1) => Len(responses) = 1

\* C8 (amended): a one-byte response line ends line accumulation
\* immediately: it is the last line read and contributes the empty string;
\* the result has exactly one element when it is the first line of the
\* response, and keeps the continuation lines read before it otherwise.
C8_RebootSentinel ==
    /\ pc = "send_read" => \A i \in 1..Len(rawlines) : rawlines[i] # <<LF>>
    /\ ResponseRead
         => /\ \A i \in 1..Len(rawlines) : rawlines[i] = <<LF>> => i = Len(rawlines)
            /\ rawlines[Len(rawlines)] = <<LF>> => responses[Len(responses)] = <<>>
            /\ rawlines[1] = <<LF>> => responses = << <<>> >>

C8_Witness == ResponseRead /\ rawlines = << <<LF>> >> /\ pc = "send_return"

\* ---------------------------------------------------------------- C9
\* C9: a blocking move_um returns with the moving flag false, a
\* non-blocking one with the flag true; the flag is cleared only when the
\* idle reply b'0\n' is read from the port, and move_um and close write no
\* command but the motion-status request, and do not close the port, while
\* the flag is true.
C9_LazyResolution ==
    /\ []((Returned("move_um") /\ outcome.kind = "ok") => (moving <=> ~block))
    /\ [][(moving /\ ~moving')
            => /\ pc = "finish_moving_read"
               /\ Len(inbuf) >= 2 /\ SubSeq(inbuf, 1, 2) = OkLine]_vars
    /\ [][(/\ op \in {"move_um", "close"} /\ op' = op
           /\ Len(written') > Len(written)
           /\ written'[Len(written')] # POLL) => ~moving]_vars
    /\ [][(port_open /\ ~port_open') => ~moving]_vars

C9_Witness ==
    /\ op = "move_um" /\ moving0 /\ ~moving
    /\ pc = "send_check" /\ cmd.op = "MOV"
    /\ written[1] = POLL

\* --------------------------------------------------------------- C10
\* C10 as stated: resolving an outstanding move always terminates; the
\* poll loop of _finish_moving is left after finitely many polls.
C10_Original ==
    (pc = "finish_moving") ~> (pc \notin {"finish_moving", "finish_moving_read"})

\* --------------------------------------------------------------- C11
AnalogSwitch == "SPA 1 0x06000500"

HasSwitch(w) == \E i \in 1..Len(w) : w[i].op = AnalogSwitch

\* C11 as stated: set_analog_control_enable writes the analog-enable or
\* analog-disable parameter only while the moving flag is false.
C11_Original ==
    (op = "set_analog_control_enable" /\ HasSwitch(written)) => ~moving

\* --------------------------------------------------------------- C12
\* C12 as stated: set_analog_control_enable(False) performs the TSP? 2
\* readback, the clamp, the analog-disable write and the MOV to the clamped
\* value in this order (each followed by its error check), and on its
\* normal return the cached position is the clamped realized position.
C12_Original ==
    (Returned("set_analog_control_enable") /\ ~enable /\ outcome.kind = "ok")
        => /\ written = << Cmd("TSP? 2", 0), ERR, Cmd(AnalogSwitch, 0), ERR,
                           Cmd("MOV", z_target), ERR >>
           /\ z_min <= z_target /\ z_target <= z_max
           /\ z = z_target

\* --------------------------------------------------------------- C13
Abs(x) == IF x < 0 THEN -x ELSE x

\* C13: set_analog_control_enable(True) followed by
\* set_analog_control_enable(False) leaves the cached position within
\* z_tol_um of its value before the enable call, and the analog-control
\* flag false.
C13_HandoverRoundTrip ==
    (/\ Returned("set_analog_control_enable") /\ ~enable /\ outcome.kind = "ok"
     /\ handover.armed)
        => /\ Abs(z - handover.z) <= z_tol_um
           /\ ~analog_control

C13_Witness ==
    /\ Returned("set_analog_control_enable") /\ ~enable /\ outcome.kind = "ok"
    /\ handover.armed /\ analog0 /\ ~analog_control
    /\ z_target # z

\* --------------------------------------------------------------- C14
\* what close writes to resolve an outstanding move
Resolve(m) == IF m THEN <<POLL, ERR>> ELSE <<>>

\* what close writes to leave analog control
Resync(a) ==
    IF a THEN << Cmd("TSP? 2", 0), ERR, Cmd(AnalogSwitch, 0), ERR,
                 Cmd("MOV", z_target), ERR >>
    ELSE <<>>

\* C14: absent device errors close resolves an outstanding move, then
\* leaves analog control (with the resynchronising MOV) if and only if it
\* is active, then closes the port, and ends with both flags false; called
\* on an idle controller under servo control it writes nothing and does not
\* fail.
C14_CloseSequence ==
    /\ pc = "closed"
         => /\ op = "close" /\ outcome.kind = "ok"
            /\ ~moving /\ ~analog_control /\ ~port_open
            /\ written = Resolve(moving0) \o Resync(analog0)
    /\ (op = "close" /\ ~moving0 /\ ~analog0)
         => /\ pc \in {"close_analog", "close_port", "closed"}
            /\ written = <<>> /\ ~didread
    /\ (op = "close" /\ moving) => written \in {<<>>, <<POLL>>}

C14_Witness == pc = "closed" /\ moving0 /\ analog0

\* --------------------------------------------------------------- C15
IsMOV(c) == c.op = "MOV"

\* the position of the first command of w that satisfies the test, 0 if none
FirstIndex(w, o) ==
    IF \E i \in 1..Len(w) : w[i].op = o
    THEN CHOOSE i \in 1..Len(w) : w[i].op = o /\ \A j \in 1..(i - 1) : w[j].op # o
    ELSE 0

\* C15: an initialization that finds the stage within z_tol_um of a limit
\* (or beyond it) writes exactly one MOV, to z_min + z_tol_um respectively
\* z_max - z_tol_um, resolves it, and only then enables the servo; one that
\* finds the stage farther than z_tol_um from both limits writes no MOV.
C15_CorrectiveMove ==
    (op = "__init__" /\ pc \in {"init_ccl", "init_disable_analog", "init_return", "returned"})
        => LET movs == SelectSeq(written, IsMOV) IN
           /\ z0 <= z_min + z_tol_um => movs = << Cmd("MOV", z_min + z_tol_um) >>
           /\ z0 >= z_max - z_tol_um => movs = << Cmd("MOV", z_max - z_tol_um) >>
           /\ (z_min + z_tol_um < z0 /\ z0 < z_max - z_tol_um) => movs = <<>>
           /\ movs # <<>>
                => /\ FirstIndex(written, "MOV") < FirstIndex(written, "SVO 1")
                   /\ written[FirstIndex(written, "MOV") + 2] = POLL
                   /\ z = movs[1].n
           /\ ~moving

C15_Witness ==
    /\ op = "__init__" /\ pc = "returned" /\ outcome.kind = "ok"
    /\ z0 = z_min /\ z = z_min + z_tol_um
    /\ SelectSeq(written, IsMOV) = << Cmd("MOV", z_min + z_tol_um) >>

\* --------------------------------------------------------------- C16
\* the voltage <<n, d>> a call of get_voltage_for_move_um returned
Volt == [n |-> outcome.info[1], d |-> outcome.info[2]]

Accepted ==
    /\ limits_set
    /\ Target >= z_min_ai - z_tol_um /\ Target <= z_max_ai + z_tol_um

\* C16: for every configured calibration, get_voltage_for_move_um accepts
\* every target within [z_min_ai - z_tol_um, z_max_ai + z_tol_um] and
\* returns a voltage v with v_min <= v <= v_max, which is v_min or v_max
\* when (target - offset) / (gain * 10) lies outside that interval.
C16_VoltageClamped ==
    Returned("get_voltage_for_move_um")
        => /\ Accepted <=> outcome.kind = "ok"
           /\ outcome.kind = "ok"
                => /\ ~Less(Volt, Frac(v_min)) /\ ~Less(Frac(v_max), Volt)
                   /\ Less(RawVoltage(Target), Frac(v_min)) => Volt = Frac(v_min)
                   /\ Less(Frac(v_max), RawVoltage(Target)) => Volt = Frac(v_max)

C16_Witness ==
    /\ Returned("get_voltage_for_move_um") /\ outcome.kind = "ok"
    /\ Less(Frac(v_max), RawVoltage(Target)) /\ Volt = Frac(v_max)
    /\ v_min < 0

\* --------------------------------------------------------------- C17
\* set_analog_control_limits(0, 10, 0, 100), lengths in units of z_tol_um
DemoLimits == [v_min |-> 0, v_max |-> 10, z_min_ai |-> 0, z_max_ai |-> Um(100)]

DemoConfigured ==
    /\ Returned("set_analog_control_limits") /\ outcome.kind = "ok"
    /\ largs = DemoLimits

DemoVoltage ==
    /\ Returned("get_voltage_for_move_um")
    /\ limits_set
    /\ [v_min |-> v_min, v_max |-> v_max, z_min_ai |-> z_min_ai, z_max_ai |-> z_max_ai]
         = DemoLimits
    /\ gain = Gain(DemoLimits) /\ offset = Offset(DemoLimits, Gain(DemoLimits))
    /\ Target = Um(50)

\* C17 as stated: with v_min = 0, v_max = 10, z_min_ai = 0, z_max_ai = 100 um
\* the gain is 0.1 (um), the offset 0, and the voltage for the absolute
\* target 50 um is 5.0.  (gain.n / gain.d is the gain in units of z_tol_um;
\* there are UnitsPerUm of them in 1 um.)
C17_Original ==
    /\ DemoConfigured => 10 * gain.n = UnitsPerUm * gain.d /\ offset.n = 0
    /\ DemoVoltage => outcome.kind = "ok" /\ Volt.n = 5 * Volt.d

\* C17 (amended): with v_min = 0, v_max = 10, z_min_ai = 0, z_max_ai = 100 um
\* the gain is 1.0 (um), the offset 0, and the voltage for the absolute
\* target 50 um is 5.0.
C17_DemoCalibration ==
    /\ DemoConfigured => gain.n = UnitsPerUm * gain.d /\ offset.n = 0
    /\ DemoVoltage => outcome.kind = "ok" /\ Volt.n = 5 * Volt.d

C17_Witness == DemoVoltage /\ ~relative /\ outcome.kind = "ok" /\ Volt.n = 5 * Volt.d

\* --------------------------------------------------------------- C18
\* the argument tuple violates one of the conditions on analog limits, for
\* the position limits and the cached position zc
Violates(a, zc) ==
    \/ ~(a.v_min < a.v_max)
    \/ a.v_min < -10 \/ a.v_max > 10
    \/ ~(a.z_min_ai < a.z_max_ai)
    \/ a.z_min_ai < z_min \/ a.z_max_ai > z_max
    \/ zc < a.z_min_ai - z_tol_um \/ zc > a.z_max_ai + z_tol_um

\* C18: set_analog_control_limits rejects every argument tuple that
\* violates one of the conditions; the rejected call writes and reads
\* nothing and leaves gain, offset, the stored limits and the
\* limits-configured flag as they were.
C18_LimitsRejected ==
    /\ []((op = "set_analog_control_limits" /\ Violates(largs, z0))
            => /\ pc = "returned" /\ outcome.kind = "AssertionError"
               /\ written = <<>> /\ ~didread)
    /\ [][(op' = "set_analog_control_limits" /\ op # op' /\ Violates(largs', z))
            => UNCHANGED <<calib, limits_set, pos, wire>>]_vars

C18_Witness ==
    /\ Returned("set_analog_control_limits") /\ outcome.kind = "AssertionError"
    /\ largs.v_max > 10 /\ largs.v_min = 0
    /\ largs.z_min_ai = z_min_ai /\ largs.z_max_ai = z_max_ai
    /\ limits_set /\ gain.n > 0

\* --------------------------------------------------------------- C19
\* the step writes a command or a motion-status request to the port
Writes == Len(pending') > Len(pending) \/ Len(written') > Len(written)

\* C19 as stated: the controller writes to the port only when every reply
\* to its earlier requests has been delivered and read.
C19_Original == [][Writes => (pending = <<>> /\ inbuf = <<>>)]_vars

\* --------------------------------------------------------------- C20
\* a MOV was written and no motion-status request after it
UnresolvedMOV(w) ==
    \E i \in 1..Len(w) : w[i].op = "MOV" /\ \A j \in (i + 1)..Len(w) : w[j] # POLL

Completed == pc \in {"returned", "closed"} /\ outcome.kind = "ok"

\* C20 as stated: when an operation has sent a MOV that passed its error
\* check and has not polled the motion status since, the moving flag is
\* true, for the MOV of move_um and for the MOV of the analog disable.
C20_Original == (Completed /\ UnresolvedMOV(written)) => moving

\* C20 (amended): when move_um has sent a MOV that passed its error check
\* and no motion-status poll has returned the idle reply since, the moving
\* flag is true, and the next move_um or close polls first; the MOV sent
\* when analog control is disabled leaves the moving flag as it was.
C20_MovingFlag ==
    /\ []((Completed /\ op \in {"move_um", "__init__"} /\ UnresolvedMOV(written))
            => moving)
    /\ [][(moving /\ ~moving')
            => pc = "finish_moving_read" /\ Idle(SubSeq(inbuf, 1, 2))]_vars
    /\ [][(moving /\ op # op' /\ op' \in {"move_um", "close"})
            => pc' = "finish_moving"]_vars
    /\ []((Returned("set_analog_control_enable") /\ outcome.kind = "ok")
            => moving = moving0)

C20_Witness ==
    /\ Returned("set_analog_control_enable") /\ outcome.kind = "ok" /\ ~enable
    /\ UnresolvedMOV(written) /\ ~moving

====
